---- MODULE Spec2Model ----
(***************************************************************************)
(* Model of src/main.py: the FastAPI application of the Broadway Lounge    *)
(* site.  Requests arrive on connections; each request is routed to a      *)
(* handler (render_page, contact_form, reserve_table, the static mount or  *)
(* the default not-found/not-allowed answer), the response passes the two  *)
(* http middlewares (add_headers, then fix_mime_type, which is registered  *)
(* last and is therefore outermost), and the background tasks attached to  *)
(* the response (send_email) run once the response has left the process.   *)
(*                                                                         *)
(* Strings are TLA+ strings; Char(s, i) is the i-th character.             *)
(***************************************************************************)
EXTENDS Integers, Sequences, FiniteSets, TLC

\* ------------------------------------------------------------------ bounds
MaxPartySize == 1

\* two connections served concurrently
Conns == {"c1", "c2"}

\* ---------------------------------------------------------- string helpers
Char(s, i) == SubSeq(s, i, i)

Digits == "0123456789"
Lowers == "abcdefghijklmnopqrstuvwxyz"
Uppers == "ABCDEFGHIJKLMNOPQRSTUVWXYZ"

IndexIn(alphabet, ch) ==
  IF \E i \in 1..Len(alphabet) : Char(alphabet, i) = ch
  THEN CHOOSE i \in 1..Len(alphabet) : Char(alphabet, i) = ch
  ELSE 0

IsDigit(ch) == IndexIn(Digits, ch) > 0
IsAlpha(ch) == IndexIn(Lowers, ch) > 0 \/ IndexIn(Uppers, ch) > 0
DigitVal(ch) == IndexIn(Digits, ch) - 1

ToUpper(ch) == IF IndexIn(Lowers, ch) > 0 THEN Char(Uppers, IndexIn(Lowers, ch)) ELSE ch
ToLower(ch) == IF IndexIn(Uppers, ch) > 0 THEN Char(Lowers, IndexIn(Uppers, ch)) ELSE ch

AllDigits(s) == Len(s) > 0 /\ \A i \in 1..Len(s) : IsDigit(Char(s, i))

RECURSIVE DigitsToInt(_)
DigitsToInt(s) ==
  IF Len(s) = 0 THEN 0
  ELSE 10 * DigitsToInt(SubSeq(s, 1, Len(s) - 1)) + DigitVal(Char(s, Len(s)))

RECURSIVE NatToStr(_)
NatToStr(n) ==
  IF n < 10 THEN Char(Digits, n + 1)
  ELSE NatToStr(n \div 10) \o Char(Digits, (n % 10) + 1)

\* str(v) of a Python int, as the f-string of create_html_content renders it
IntToStr(n) == IF n < 0 THEN "-" \o NatToStr(0 - n) ELSE NatToStr(n)

\* number of occurrences of the character ch in s
Count(s, ch) == Cardinality({i \in 1..Len(s) : Char(s, i) = ch})

\* positions of ch in s, smallest and largest (0 when absent)
Find(s, ch) ==
  IF Count(s, ch) = 0 THEN 0
  ELSE CHOOSE i \in 1..Len(s) :
         Char(s, i) = ch /\ \A j \in 1..(i - 1) : Char(s, j) # ch
RFind(s, ch) ==
  IF Count(s, ch) = 0 THEN 0
  ELSE CHOOSE i \in 1..Len(s) :
         Char(s, i) = ch /\ \A j \in (i + 1)..Len(s) : Char(s, j) # ch

Contains(s, p) ==
  \E i \in 1..(Len(s) - Len(p) + 1) : SubSeq(s, i, i + Len(p) - 1) = p

StartsWith(s, p) == Len(s) >= Len(p) /\ SubSeq(s, 1, Len(p)) = p

\* str.strip("/") of render_page
RECURSIVE StripSlashes(_)
StripSlashes(s) ==
  IF Len(s) > 0 /\ Char(s, 1) = "/" THEN StripSlashes(SubSeq(s, 2, Len(s)))
  ELSE IF Len(s) > 0 /\ Char(s, Len(s)) = "/" THEN StripSlashes(SubSeq(s, 1, Len(s) - 1))
  ELSE s

\* str.title(): the first letter of every run of letters is upper-cased,
\* the other letters of the run are lower-cased
RECURSIVE TitleFrom(_, _)
TitleFrom(s, i) ==
  IF i > Len(s) THEN ""
  ELSE LET ch == Char(s, i)
           startsWord == i = 1 \/ ~IsAlpha(Char(s, i - 1))
       IN (IF startsWord THEN ToUpper(ch) ELSE ToLower(ch)) \o TitleFrom(s, i + 1)
Title(s) == TitleFrom(s, 1)

\* ------------------------------------------------- configuration (20-29)
EmailConfig ==
  [sender_email |-> "HOST_EMAIL", receiver_email |-> "HOST_EMAIL",
   password |-> "HOST_PASSWORD", smtp_server |-> "mail.privateemail.com",
   port |-> 465]
get_email_config == EmailConfig

\* ------------------------------------------------------ content formatter
\* one <p> line per key/value pair; v is the text str(v) of the value
RECURSIVE JoinLines(_)
JoinLines(data) ==
  IF Len(data) = 0 THEN ""
  ELSE "<p><b>" \o Title(data[1][1]) \o ":</b> " \o data[1][2] \o "</p>"
       \o JoinLines(Tail(data))

create_html_content(data) ==
  "\n    <html>\n    <body>\n        <h2>Form Submission</h2>\n        "
  \o JoinLines(data)
  \o "\n    </body>\n    </html>\n    "

\* --------------------------------------------------- form field validation
\* email: EmailStr -- one "@", a non-empty dot-atom before it, a domain of
\* at least two non-empty labels of letters, digits and inner hyphens after
LocalChars == Lowers \o Uppers \o Digits \o ".!#$%&'*+-/=?^_{|}~"
DomainChars == Lowers \o Uppers \o Digits \o ".-"

NoDotFault(s) ==
  /\ Len(s) > 0
  /\ Char(s, 1) # "." /\ Char(s, Len(s)) # "."
  /\ ~Contains(s, "..")

NoHyphenFault(s) ==
  /\ Char(s, 1) # "-" /\ Char(s, Len(s)) # "-"
  /\ ~Contains(s, "-.") /\ ~Contains(s, ".-")

EmailStr(s) ==
  /\ Count(s, "@") = 1
  /\ LET at == Find(s, "@")
         local == SubSeq(s, 1, at - 1)
         domain == SubSeq(s, at + 1, Len(s))
     IN /\ NoDotFault(local)
        /\ \A i \in 1..Len(local) : IndexIn(LocalChars, Char(local, i)) > 0
        /\ NoDotFault(domain)
        /\ NoHyphenFault(domain)
        /\ Count(domain, ".") >= 1
        /\ \A i \in 1..Len(domain) : IndexIn(DomainChars, Char(domain, i)) > 0

\* partysize: int -- the form text is an optionally signed run of digits
IsIntText(s) ==
  \/ AllDigits(s)
  \/ Len(s) > 1 /\ Char(s, 1) \in {"-", "+"} /\ AllDigits(SubSeq(s, 2, Len(s)))

ParseInt(s) ==
  IF Char(s, 1) = "-" THEN 0 - DigitsToInt(SubSeq(s, 2, Len(s)))
  ELSE IF Char(s, 1) = "+" THEN DigitsToInt(SubSeq(s, 2, Len(s)))
  ELSE DigitsToInt(s)

\* ------------------------------------------- datetime.strptime / strftime
MonthNames ==
  <<"January", "February", "March", "April", "May", "June", "July",
    "August", "September", "October", "November", "December">>

IsLeap(y) == (y % 4 = 0 /\ y % 100 # 0) \/ y % 400 = 0
DaysIn(m, y) ==
  IF m = 2 THEN (IF IsLeap(y) THEN 29 ELSE 28)
  ELSE IF m \in {4, 6, 9, 11} THEN 30 ELSE 31

DayText(s) == SubSeq(s, 1, Find(s, "/") - 1)
MonthText(s) == SubSeq(s, Find(s, "/") + 1, RFind(s, "/") - 1)
YearText(s) == SubSeq(s, RFind(s, "/") + 1, Len(s))

\* strptime(s, "%d/%m/%Y") succeeds
ParsesDMY(s) ==
  /\ Count(s, "/") = 2
  /\ AllDigits(DayText(s)) /\ Len(DayText(s)) <= 2
  /\ AllDigits(MonthText(s)) /\ Len(MonthText(s)) <= 2
  /\ AllDigits(YearText(s)) /\ Len(YearText(s)) = 4
  /\ LET d == DigitsToInt(DayText(s))
         m == DigitsToInt(MonthText(s))
         y == DigitsToInt(YearText(s))
     IN y >= 1 /\ m \in 1..12 /\ d \in 1..DaysIn(m, y)

Pad2(n) == IF n < 10 THEN "0" \o NatToStr(n) ELSE NatToStr(n)
Pad4(n) ==
  IF n < 10 THEN "000" \o NatToStr(n)
  ELSE IF n < 100 THEN "00" \o NatToStr(n)
  ELSE IF n < 1000 THEN "0" \o NatToStr(n)
  ELSE NatToStr(n)

\* strptime(s, "%d/%m/%Y").strftime("%B %d, %Y"), for s with ParsesDMY(s)
LongDate(s) ==
  MonthNames[DigitsToInt(MonthText(s))] \o " " \o Pad2(DigitsToInt(DayText(s)))
  \o ", " \o Pad4(DigitsToInt(YearText(s)))

\* ------------------------------------------------------- os.path.splitext
Splitext(p) ==
  LET sep == RFind(p, "/")
      dot == RFind(p, ".")
  IN IF dot > sep /\ \E j \in (sep + 1)..(dot - 1) : Char(p, j) # "."
     THEN SubSeq(p, dot, Len(p))
     ELSE ""

\* ---------------------------------------------------------------- inputs
\* an optional form field: <<>> when the field is absent (None), <<v>> when
\* it was submitted with text v
Opt(S) == {<<>>} \cup {<<v>> : v \in S}
Present(f) == Len(f) = 1

Names == {"Ada", "<b>Eve</b>"}
Emails == {"ada@mail.org", "not-an-email"}
Messages == {"Hi & bye"}
\* partysize texts: the integers of -MaxPartySize..MaxPartySize and a word
PartySizes == {IntToStr(n) : n \in (0 - MaxPartySize)..MaxPartySize} \cup {"abc"}
Dates == {"25/12/2024", "not-a-date"}
Times == {"19:30"}
DateTimes == {"2024-12-25T19:30"}

NoForm ==
  [name |-> <<>>, email |-> <<>>, message |-> <<>>,
   partysize |-> <<>>, date |-> <<>>, time |-> <<>>, datetime |-> <<>>]

\* every form with all three fields, and the forms with one field missing
ContactForms ==
  LET full == {[NoForm EXCEPT !.name = <<n>>, !.email = <<e>>, !.message = <<m>>] :
                 n \in Names, e \in Emails, m \in Messages}
      one == [NoForm EXCEPT !.name = <<"Ada">>, !.email = <<"ada@mail.org">>,
                            !.message = <<"Hi & bye">>]
  IN full \cup {[one EXCEPT !.name = <<>>], [one EXCEPT !.email = <<>>],
                [one EXCEPT !.message = <<>>]}

\* every form with the three required fields, the same with datetime for one
\* party size, and the forms with one required field missing
ReserveForms ==
  LET full == {[NoForm EXCEPT !.partysize = <<p>>, !.date = <<d>>, !.time = <<t>>] :
                 p \in PartySizes, d \in Dates, t \in Times}
      one == [NoForm EXCEPT !.partysize = <<IntToStr(MaxPartySize)>>,
                            !.date = <<"25/12/2024">>, !.time = <<"19:30">>]
  IN full
     \cup {[f EXCEPT !.datetime = <<dt>>] :
             f \in {g \in full : g.partysize = one.partysize}, dt \in DateTimes}
     \cup {[one EXCEPT !.partysize = <<>>], [one EXCEPT !.date = <<>>],
           [one EXCEPT !.time = <<>>]}

\* the routes of lines 52-58, 63 and 83, and the mount of line 17
PageRoutes ==
  {"/", "/reservations", "/about", "/bar", "/contact", "/gallery", "/philex-index"}
ContactRoute == "/contact-us"
ReserveRoute == "/reserve-table"
StaticMount == "/static"

\* files of the static directory (an external resource)
ExistingAssets ==
  {"/static/fonts/a.woff2", "/static/fonts/a.woff", "/static/fonts/a.ttf",
   "/static/css/site.css"}
\* the content type the static-file server may emit for an existing file
GuessedTypes == {"application/octet-stream", "text/css"}

\* requests without a form: pages, an unknown path, wrong methods, assets
PlainRequests ==
  {[method |-> "GET", path |-> p, form |-> NoForm] :
     p \in {"/", "/about", "/does-not-exist", ContactRoute,
            "/static/fonts/missing.woff2", "/static/.woff"} \cup ExistingAssets}
  \cup {[method |-> "POST", path |-> p, form |-> NoForm] :
          p \in {"/about", "/static/fonts/a.ttf"}}

Requests ==
  {[method |-> "POST", path |-> ContactRoute, form |-> f] : f \in ContactForms}
  \cup {[method |-> "POST", path |-> ReserveRoute, form |-> f] : f \in ReserveForms}
  \cup PlainRequests

NoRequest == [method |-> "", path |-> "", form |-> NoForm]

\* -------------------------------------------------------------- responses
HTTP_302_FOUND == 302

Hdr(k, v) == [x \in {k} |-> v]
\* MutableHeaders.update: the keys of d are set, the others are kept
Update(h, d) ==
  [k \in DOMAIN h \cup DOMAIN d |-> IF k \in DOMAIN d THEN d[k] ELSE h[k]]

NoHeaders == [k \in {} |-> ""]
NoResponse == [status |-> 0, headers |-> NoHeaders, template |-> ""]

RedirectResponse(url, status_code) ==
  [status |-> status_code, headers |-> Hdr("Location", url), template |-> ""]

TemplateResponse(name) ==
  [status |-> 200,
   headers |-> Hdr("Content-Type", "text/html; charset=utf-8"),
   template |-> name]

\* the JSON answers of the framework: 422 for a form that fails validation,
\* 404 for an unmatched route or a missing file, 405 for a wrong method
JSONResponse(status_code) ==
  [status |-> status_code,
   headers |-> Hdr("Content-Type", "application/json"), template |-> ""]

FileResponse(ctype) ==
  [status |-> 200, headers |-> Hdr("Content-Type", ctype), template |-> ""]

\* ------------------------------------------------------------ page renderer
\* template = request.url.path.strip("/") or "index"
TemplateName(path) ==
  IF StripSlashes(path) = "" THEN "index" ELSE StripSlashes(path)

\* ------------------------------------------------------------ contact form
\* name: str = Form(...), email: EmailStr = Form(...), message: str = Form(...)
\* the signature with email: str, which accepts any text as the address
ContactValidAnyEmail(form) ==
  /\ Present(form.name)
  /\ Present(form.email)
  /\ Present(form.message)
ContactValid(form) ==
  /\ Present(form.name)
  /\ Present(form.email) /\ EmailStr(form.email[1])
  /\ Present(form.message)

\* the subject written without the f prefix: the name is never substituted
ContactSubjectLiteral(name) == "Contact Form: {name}"
ContactSubject(name) == "Contact Form: " \o name

ContactContent(form) ==
  create_html_content(<<<<"name", form.name[1]>>,
                        <<"email", form.email[1]>>,
                        <<"message", form.message[1]>>>>)

\* -------------------------------------------------------- reservation form
\* partysize: int = Form(...), date: str = Form(...), time: str = Form(...),
\* datetime: str = Form(None)
ReserveValid(form) ==
  /\ Present(form.partysize) /\ IsIntText(form.partysize[1])
  /\ Present(form.date)
  /\ Present(form.time)

\* the name datetime inside reserve_table is the form parameter, a str or
\* None; the module of that name is not imported
TypeOf(v) == IF Present(v) THEN "str" ELSE "NoneType"
Attributes == [str |-> {"strip", "title", "format"}, NoneType |-> {}]
HasAttr(v, attr) == attr \in Attributes[TypeOf(v)]

\* the except branch yielding an empty text instead of the submitted one
FormatDateNoFallback(date, datetime) ==
  IF HasAttr(datetime, "strptime") /\ ParsesDMY(date)
  THEN LongDate(date)
  ELSE ""
\* the try/except of lines 97-101: any exception falls back to the raw text
FormatDate(date, datetime) ==
  IF HasAttr(datetime, "strptime") /\ ParsesDMY(date)
  THEN LongDate(date)
  ELSE date

ReserveSubject == "Table Reservation Request"

ReserveContent(form) ==
  create_html_content(<<<<"Party Size", IntToStr(ParseInt(form.partysize[1]))>>,
                        <<"Date", FormatDate(form.date[1], form.datetime)>>,
                        <<"Time", form.time[1]>>>>)

\* ---------------------------------------------------------- background task
Task(subject, content) ==
  [func |-> "send_email", config |-> get_email_config,
   subject |-> subject, content |-> content]

\* BackgroundTasks.add_task: the call is appended, not run
add_task(background_tasks, task) == Append(background_tasks, task)

\* the errors smtplib raises at connect (line 48), login (49), send (50)
SmtpErrors == {"OSError", "SMTPException"}

\* ------------------------------------------------------------ handler bodies
\* what a handler returns for a submitted form: the response, and the calls
\* it has put on background_tasks; a form that fails the validation of the
\* signature is answered 422 before the body runs
ContactHandler(form) ==
  IF ContactValid(form)
  THEN [response |-> RedirectResponse("/contact", HTTP_302_FOUND),
        background |-> add_task(<<>>, Task(ContactSubject(form.name[1]),
                                          ContactContent(form)))]
  ELSE [response |-> JSONResponse(422), background |-> <<>>]

ReserveHandler(form) ==
  IF ReserveValid(form)
  THEN [response |-> RedirectResponse("/bar", HTTP_302_FOUND),
        background |-> add_task(<<>>, Task(ReserveSubject, ReserveContent(form)))]
  ELSE [response |-> JSONResponse(422), background |-> <<>>]

\* the handlers tabulated over the forms of the model
ContactResult == [f \in ContactForms |-> ContactHandler(f)]
ReserveResult == [f \in ReserveForms |-> ReserveHandler(f)]

\* --------------------------------------------------------------- middleware
\* caching every answer that is not an error, redirects included
CacheControlNotError(status_code) ==
  IF status_code < 400 THEN "public, max-age=1200" ELSE "no-store"
CacheControl(status_code) ==
  IF status_code = 200 THEN "public, max-age=1200" ELSE "no-store"

SecurityHeaders(status_code) ==
  [k \in {"X-XSS-Protection", "X-Content-Type-Options", "Cache-Control"} |->
     IF k = "X-XSS-Protection" THEN "1; mode=block"
     ELSE IF k = "X-Content-Type-Options" THEN "nosniff"
     ELSE CacheControl(status_code)]

\* the table with the .woff2 entry mistyped
content_types_typo ==
  [k \in {".ttf", ".woff", ".woff2"} |->
     IF k = ".ttf" THEN "font/ttf" ELSE "font/woff"]
content_types ==
  [k \in {".ttf", ".woff", ".woff2"} |->
     IF k = ".ttf" THEN "font/ttf"
     ELSE IF k = ".woff" THEN "font/woff" ELSE "font/woff2"]

\* ext = os.path.splitext(request.url.path)[1], tabulated over the paths
Ext == [p \in {r.path : r \in Requests} |-> Splitext(p)]

FixMime(path, response) ==
  IF Ext[path] \in DOMAIN content_types
  THEN [response EXCEPT
          !.headers = Update(@, Hdr("Content-Type", content_types[Ext[path]]))]
  ELSE response

\* -------------------------------------------------------------------- state
VARIABLES
  pc,        \* per connection: idle, handled, headers, sent, sending, done
  req,       \* the request being served
  resp,      \* the response object travelling out through the middlewares
  sent,      \* the response as it left the process: <<>> or <<response>>
  tasks,     \* background_tasks of the request: the scheduled calls
  attempts,  \* send_email calls started for the request
  outcome,   \* result of the last send_email call: none, ok, raised
  uncaught   \* exceptions that left the background task

vars == <<pc, req, resp, sent, tasks, attempts, outcome, uncaught>>

Init ==
  /\ pc = [c \in Conns |-> "idle"]
  /\ req = [c \in Conns |-> NoRequest]
  /\ resp = [c \in Conns |-> NoResponse]
  /\ sent = [c \in Conns |-> <<>>]
  /\ tasks = [c \in Conns |-> <<>>]
  /\ attempts = [c \in Conns |-> 0]
  /\ outcome = [c \in Conns |-> "none"]
  /\ uncaught = [c \in Conns |-> <<>>]

\* a connection takes its next request once the previous call has returned:
\* the response is out and every background task has run or one has raised
Free(c) ==
  \/ pc[c] \in {"idle", "done"}
  \/ pc[c] = "sent" /\ attempts[c] = Len(tasks[c])

\* the handler of request r on connection c answers with response and has
\* scheduled the background calls scheduled
Answer(c, r, response, scheduled) ==
  /\ Free(c)
  /\ pc' = [pc EXCEPT ![c] = "handled"]
  /\ req' = [req EXCEPT ![c] = r]
  /\ resp' = [resp EXCEPT ![c] = response]
  /\ tasks' = [tasks EXCEPT ![c] = scheduled]
  /\ sent' = [sent EXCEPT ![c] = <<>>]
  /\ attempts' = [attempts EXCEPT ![c] = 0]
  /\ outcome' = [outcome EXCEPT ![c] = "none"]
  /\ uncaught' = [uncaught EXCEPT ![c] = <<>>]

render_page(c, r) ==
  /\ r.method = "GET" /\ r.path \in PageRoutes
  /\ Answer(c, r, TemplateResponse(TemplateName(r.path) \o ".html"), <<>>)

contact_form(c, r) ==
  /\ r.method = "POST" /\ r.path = ContactRoute
  /\ Answer(c, r, ContactResult[r.form].response, ContactResult[r.form].background)

reserve_table(c, r) ==
  /\ r.method = "POST" /\ r.path = ReserveRoute
  /\ Answer(c, r, ReserveResult[r.form].response, ReserveResult[r.form].background)

\* app.mount("/static", StaticFiles(directory="static"))
static_files(c, r) ==
  /\ StartsWith(r.path, StaticMount \o "/")
  /\ IF r.method # "GET" THEN Answer(c, r, JSONResponse(405), <<>>)
     ELSE IF r.path \in ExistingAssets
     THEN \E ctype \in GuessedTypes : Answer(c, r, FileResponse(ctype), <<>>)
     ELSE Answer(c, r, JSONResponse(404), <<>>)

\* FastAPI(docs_url=None, redoc_url=None): a path outside the route table is
\* answered 404, a route asked with another method 405
default_response(c, r) ==
  /\ ~StartsWith(r.path, StaticMount \o "/")
  /\ ~(r.method = "GET" /\ r.path \in PageRoutes)
  /\ ~(r.method = "POST" /\ r.path \in {ContactRoute, ReserveRoute})
  /\ IF r.path \in PageRoutes \cup {ContactRoute, ReserveRoute}
     THEN Answer(c, r, JSONResponse(405), <<>>)
     ELSE Answer(c, r, JSONResponse(404), <<>>)

\* the inner middleware: runs on the response of call_next
add_headers(c) ==
  /\ pc[c] = "handled"
  /\ pc' = [pc EXCEPT ![c] = "headers"]
  /\ resp' = [resp EXCEPT ![c].headers = Update(@, SecurityHeaders(resp[c].status))]
  /\ UNCHANGED <<req, sent, tasks, attempts, outcome, uncaught>>

\* the outer middleware (registered last): what it returns leaves the process
fix_mime_type(c) ==
  /\ pc[c] = "headers"
  /\ pc' = [pc EXCEPT ![c] = "sent"]
  /\ resp' = [resp EXCEPT ![c] = FixMime(req[c].path, resp[c])]
  /\ sent' = [sent EXCEPT ![c] = <<FixMime(req[c].path, resp[c])>>]
  /\ UNCHANGED <<req, tasks, attempts, outcome, uncaught>>

\* send_email entered as soon as the handler has returned, without waiting
\* for the response to leave
send_email_begin_inline(c) ==
  /\ pc[c] \in {"handled", "headers", "sent"}
  /\ attempts[c] < Len(tasks[c])
  /\ pc' = [pc EXCEPT ![c] = "sending"]
  /\ attempts' = [attempts EXCEPT ![c] = @ + 1]
  /\ UNCHANGED <<req, resp, sent, tasks, outcome, uncaught>>

\* send_email is entered for the next scheduled call, after the response
send_email_begin(c) ==
  /\ pc[c] = "sent"
  /\ attempts[c] < Len(tasks[c])
  /\ pc' = [pc EXCEPT ![c] = "sending"]
  /\ attempts' = [attempts EXCEPT ![c] = @ + 1]
  /\ UNCHANGED <<req, resp, sent, tasks, outcome, uncaught>>

\* connect, login and send_message all succeeded
send_email_ok(c) ==
  /\ pc[c] = "sending"
  /\ pc' = [pc EXCEPT ![c] = IF attempts[c] < Len(tasks[c]) THEN "sent" ELSE "done"]
  /\ outcome' = [outcome EXCEPT ![c] = "ok"]
  /\ UNCHANGED <<req, resp, sent, tasks, attempts, uncaught>>

\* one of them raised: send_email has no handler and neither has its caller,
\* so the exception leaves the task and the remaining calls are not run
send_email_raise(c) ==
  /\ pc[c] = "sending"
  /\ \E e \in SmtpErrors :
       uncaught' = [uncaught EXCEPT ![c] = Append(@, e)]
  /\ pc' = [pc EXCEPT ![c] = "done"]
  /\ outcome' = [outcome EXCEPT ![c] = "raised"]
  /\ UNCHANGED <<req, resp, sent, tasks, attempts>>

Next ==
  \/ \E c \in Conns, r \in Requests : render_page(c, r)
  \/ \E c \in Conns, r \in Requests : contact_form(c, r)
  \/ \E c \in Conns, r \in Requests : reserve_table(c, r)
  \/ \E c \in Conns, r \in Requests : static_files(c, r)
  \/ \E c \in Conns, r \in Requests : default_response(c, r)
  \/ \E c \in Conns : add_headers(c)
  \/ \E c \in Conns : fix_mime_type(c)
  \/ \E c \in Conns : send_email_begin(c)
  \/ \E c \in Conns : send_email_ok(c)
  \/ \E c \in Conns : send_email_raise(c)

Spec == Init /\ [][Next]_vars

\* ================================================================== claims
\* the request of connection c has been through its handler
Served(c) == pc[c] # "idle"
IsContact(c) == req[c].method = "POST" /\ req[c].path = ContactRoute
IsReserve(c) == req[c].method = "POST" /\ req[c].path = ReserveRoute
Is4xx(status_code) == status_code \in 400..499

\* the texts of the model that are addresses, integers, day/month/year dates
AddressTexts == {e \in Emails : EmailStr(e)}
IntegerTexts == {p \in PartySizes : IsIntText(p)}
ParseableDates == {d \in Dates : ParsesDMY(d)}
LongForm == [d \in ParseableDates |-> LongDate(d)]
PartySizeValue == [p \in IntegerTexts |-> ParseInt(p)]

\* the submission of connection c has every required field, well formed
GoodContact(c) ==
  /\ IsContact(c)
  /\ Present(req[c].form.name) /\ Present(req[c].form.message)
  /\ Present(req[c].form.email) /\ req[c].form.email[1] \in AddressTexts
GoodReserve(c) ==
  /\ IsReserve(c)
  /\ Present(req[c].form.partysize) /\ req[c].form.partysize[1] \in IntegerTexts
  /\ Present(req[c].form.date) /\ Present(req[c].form.time)

\* the response of connection c, on its way out and once out, is a 302 to url
RedirectsTo(c, url) ==
  /\ resp[c].status = 302
  /\ "Location" \in DOMAIN resp[c].headers /\ resp[c].headers["Location"] = url
  /\ sent[c] # <<>> =>
       /\ sent[c][1].status = 302
       /\ "Location" \in DOMAIN sent[c][1].headers
       /\ sent[c][1].headers["Location"] = url

\* the line of the email body that shows value under the (title-cased) key
FieldLine(key, value) == "<p><b>" \o key \o ":</b> " \o value \o "</p>"

\* C1: a contact submission with name, email and message present and a valid
\* address is answered 302 to /contact and has exactly one send_email call
\* scheduled, with subject "Contact Form: " followed by the name; at no later
\* point is a second call scheduled or started for it.
ContactRedirectsAndSchedulesOnce ==
  \A c \in Conns :
    Served(c) /\ GoodContact(c) =>
      /\ RedirectsTo(c, "/contact")
      /\ Len(tasks[c]) = 1
      /\ tasks[c][1].func = "send_email"
      /\ tasks[c][1].subject = "Contact Form: " \o req[c].form.name[1]
      /\ attempts[c] <= 1

\* a valid contact submission whose response is out and whose email was sent
ContactEmailSent ==
  \E c \in Conns :
    /\ GoodContact(c) /\ pc[c] = "done" /\ outcome[c] = "ok"
    /\ req[c].form.name[1] = "Ada" /\ sent[c] # <<>>

\* C2: a POST to /contact-us or /reserve-table with a required field missing
\* or malformed (an email that is no address, a partysize that is no integer)
\* is answered 4xx, and no send_email call is scheduled or started for it,
\* before or after the response.
InvalidFormRejectedNoEmail ==
  \A c \in Conns :
    Served(c) /\ ((IsContact(c) /\ ~GoodContact(c)) \/ (IsReserve(c) /\ ~GoodReserve(c))) =>
      /\ Is4xx(resp[c].status)
      /\ sent[c] # <<>> => Is4xx(sent[c][1].status)
      /\ tasks[c] = <<>>
      /\ attempts[c] = 0

\* a contact submission with a malformed address whose 4xx answer is out
BadEmailAnswered ==
  \E c \in Conns :
    /\ IsContact(c) /\ Present(req[c].form.email)
    /\ req[c].form.email[1] = "not-an-email"
    /\ pc[c] = "sent" /\ sent[c] # <<>>

\* C3: for a reservation whose date parses as day/month/year, the Date line
\* of the scheduled email shows the long month-name form ("December 25,
\* 2024" for "25/12/2024"), with or without the datetime field.
ReservationDateLongForm ==
  \A c \in Conns :
    Served(c) /\ GoodReserve(c) /\ req[c].form.date[1] \in ParseableDates =>
      /\ Len(tasks[c]) = 1
      /\ Contains(tasks[c][1].content,
                  FieldLine("Date", LongForm[req[c].form.date[1]]))

\* C4: a reservation with an integer partysize and date and time present is
\* answered 302 to /bar with exactly one email, subject "Table Reservation
\* Request", scheduled, whether or not the date parses; a date that does not
\* parse is shown unchanged in the Date line and the answer is no error.
ReservationAcceptedDateFallback ==
  \A c \in Conns :
    Served(c) /\ GoodReserve(c) =>
      /\ RedirectsTo(c, "/bar")
      /\ Len(tasks[c]) = 1
      /\ tasks[c][1].func = "send_email"
      /\ tasks[c][1].subject = "Table Reservation Request"
      /\ req[c].form.date[1] \notin ParseableDates =>
           Contains(tasks[c][1].content, FieldLine("Date", req[c].form.date[1]))

\* a reservation with the date "not-a-date" whose 302 answer is out
UnparseableDateAccepted ==
  \E c \in Conns :
    /\ GoodReserve(c) /\ req[c].form.date[1] = "not-a-date"
    /\ pc[c] = "sent" /\ sent[c] # <<>> /\ sent[c][1].status = 302

\* C5: a reservation whose partysize is zero or negative is answered 4xx and
\* no send_email call is scheduled for it.
PartySizeMustBePositive ==
  \A c \in Conns :
    /\ Served(c) /\ IsReserve(c) /\ Present(req[c].form.partysize)
    /\ req[c].form.partysize[1] \in IntegerTexts
    /\ PartySizeValue[req[c].form.partysize[1]] <= 0
    => Is4xx(resp[c].status) /\ tasks[c] = <<>>

\* C6: every response that has left the process carries X-Content-Type-Options
\* nosniff and X-XSS-Protection "1; mode=block", and its Cache-Control is
\* "public, max-age=1200" exactly when the status is 200, "no-store" otherwise.
SecurityAndCacheHeaders ==
  \A c \in Conns :
    sent[c] # <<>> =>
      LET h == sent[c][1].headers
          code == sent[c][1].status
      IN /\ {"X-Content-Type-Options", "X-XSS-Protection", "Cache-Control"} \subseteq DOMAIN h
         /\ h["X-Content-Type-Options"] = "nosniff"
         /\ h["X-XSS-Protection"] = "1; mode=block"
         /\ (h["Cache-Control"] = "public, max-age=1200") <=> (code = 200)
         /\ code # 200 => h["Cache-Control"] = "no-store"

\* a 200 page and a 302 redirect have both left the process
PageAndRedirectSent ==
  \E c, d \in Conns :
    /\ sent[c] # <<>> /\ sent[c][1].status = 200
    /\ sent[d] # <<>> /\ sent[d][1].status = 302

\* the path names a file with extension ext: it ends in ext and the file
\* name has something before it
EndsWith(s, p) == Len(s) >= Len(p) /\ SubSeq(s, Len(s) - Len(p) + 1, Len(s)) = p
HasExtension(path, ext) ==
  /\ EndsWith(path, ext)
  /\ Len(path) > Len(ext)
  /\ Char(path, Len(path) - Len(ext)) # "/"
FontType ==
  [e \in {".ttf", ".woff", ".woff2"} |->
     IF e = ".ttf" THEN "font/ttf" ELSE IF e = ".woff" THEN "font/woff" ELSE "font/woff2"]
FontExtOf ==
  [p \in {r.path : r \in Requests} |-> {e \in DOMAIN FontType : HasExtension(p, e)}]

\* C7: a response to a request whose path has extension .ttf, .woff or .woff2
\* leaves with Content-Type font/ttf, font/woff or font/woff2, whatever its
\* status and the type emitted before; for any other path the font step
\* leaves Content-Type as it was; in both cases the step changes no other
\* header.
FontStepFrame ==
  \A c \in Conns :
    pc[c] = "headers" /\ pc'[c] = "sent" =>
      /\ sent'[c] = <<resp'[c]>>
      /\ resp'[c].status = resp[c].status
      /\ DOMAIN resp[c].headers \subseteq DOMAIN resp'[c].headers
      /\ \A k \in DOMAIN resp'[c].headers \ {"Content-Type"} :
           k \in DOMAIN resp[c].headers /\ resp'[c].headers[k] = resp[c].headers[k]
      /\ FontExtOf[req[c].path] = {} => resp'[c].headers = resp[c].headers
FontTypeSent ==
  \A c \in Conns :
    sent[c] # <<>> =>
      \A e \in FontExtOf[req[c].path] :
        /\ "Content-Type" \in DOMAIN sent[c][1].headers
        /\ sent[c][1].headers["Content-Type"] = FontType[e]
FontMimeCorrection == []FontTypeSent /\ [][FontStepFrame]_vars

\* the 404 for a missing .woff2 asset has left with the font type
MissingFontSent ==
  \E c \in Conns :
    /\ req[c].path = "/static/fonts/missing.woff2"
    /\ sent[c] # <<>> /\ sent[c][1].status = 404
    /\ sent[c][1].headers["Content-Type"] = "font/woff2"
    /\ sent[c][1].headers["Cache-Control"] = "no-store"

\* where the handler of the path redirects an accepted submission
RedirectTarget(path) == IF path = ContactRoute THEN "/contact" ELSE "/bar"

\* C8: for an accepted submission the 302 response has left the process
\* before send_email is entered, and the response that left (status and
\* Location) is the same while the send runs and after it succeeded or
\* raised.
ResponseBeforeSend ==
  \A c \in Conns :
    attempts[c] > 0 =>
      /\ sent[c] # <<>>
      /\ sent[c][1].status = 302
      /\ sent[c][1].headers["Location"] = RedirectTarget(req[c].path)
ResponseKept ==
  \A c \in Conns :
    sent[c] # <<>> /\ pc'[c] \in {"sending", "done", "sent"} => sent'[c] = sent[c]
FireAndForget == []ResponseBeforeSend /\ [][ResponseKept]_vars

\* a send has raised after the 302 of its submission had left
SendFailedAfterRedirect ==
  \E c \in Conns :
    /\ outcome[c] = "raised" /\ attempts[c] = 1
    /\ sent[c] # <<>> /\ sent[c][1].status = 302

\* C9: an error raised by the relay during send_email is caught inside the
\* background task and does not leave it, the send is not retried, and the
\* response already sent is unchanged.
SendErrorCaughtInTask ==
  \A c \in Conns :
    outcome[c] = "raised" =>
      /\ uncaught[c] = <<>>
      /\ attempts[c] <= 1
      /\ sent[c] # <<>> /\ sent[c][1].status = 302

\* html.escape of a value
EscapeChar(ch) ==
  IF ch = "&" THEN "&amp;"
  ELSE IF ch = "<" THEN "&lt;"
  ELSE IF ch = ">" THEN "&gt;"
  ELSE IF ch = "\"" THEN "&quot;"
  ELSE IF ch = "'" THEN "&#x27;"
  ELSE ch
RECURSIVE HtmlEscape(_)
HtmlEscape(v) ==
  IF Len(v) = 0 THEN "" ELSE EscapeChar(Char(v, 1)) \o HtmlEscape(SubSeq(v, 2, Len(v)))
Escaped == [v \in Names \cup Emails \cup Messages |-> HtmlEscape(v)]

\* C10: the body of the scheduled email shows every submitted field value
\* with its markup characters escaped, so that no value brings a tag into it.
ContentEscapesValues ==
  \A c \in Conns :
    Served(c) /\ GoodContact(c) =>
      /\ Len(tasks[c]) = 1
      /\ Contains(tasks[c][1].content, FieldLine("Name", Escaped[req[c].form.name[1]]))
      /\ Contains(tasks[c][1].content, FieldLine("Email", Escaped[req[c].form.email[1]]))
      /\ Contains(tasks[c][1].content, FieldLine("Message", Escaped[req[c].form.message[1]]))
====
